---- MODULE Spec2Model ----
(***************************************************************************)
(* Model of visualization/src/common/io.cpp:                               *)
(*   pcl::visualization::getCorrespondingPointCloud  (lines 53-87)         *)
(*   pcl::visualization::savePointData               (lines 90-155)        *)
(*                                                                         *)
(* Strings are sequences of one-character strings.  A point is a triple    *)
(* <<x, y, z>> of integers: one unit is one representable step of the      *)
(* coordinates in play, so that the narrowing of a double to a float       *)
(* (24 significant bits) is rounding of an integer to 24 significant bits. *)
(* All coordinates and distances of the inputs below stay in the range     *)
(* where single precision arithmetic is exact, so DistSq is the distance   *)
(* the kd-tree computes.                                                   *)
(***************************************************************************)
EXTENDS Integers, Sequences, FiniteSets, TLC

VARIABLES
  \* ---- savePointData: arguments
  data,       \* vtkPolyData* data: the displayed points (doubles)
  out_file,   \* const std::string &out_file
  actors,     \* *actors in iteration order: the display names (map keys)
  \* ---- savePointData: locals and position
  pc,         \* "start" | "loop" | "done" | "crashed"
  cleaned,    \* cleaner->GetOutput ()
  it,         \* position of the range-for over *actors (1-based)
  i,          \* int i: the output sequence number
  result,     \* the value returned: "none" until the call returns
  \* ---- savePointData: the world it acts on
  disk,       \* files written by savePCDFile: file name -> [entry, points]
  log,        \* every loadPCDFile / kd-tree build / savePCDFile call, in order
  console,    \* what print_highlight / print_value reported: pruned count
  \* ---- the kd-tree library's (fixed but unspecified) tie-breaking
  kdTie,
  \* ---- a caller of getCorrespondingPointCloud on its own
  gsrc,       \* vtkPolyData *src
  gtgt,       \* const PointCloud<PointXYZ> &tgt
  gindices,   \* pcl::Indices &indices: the caller's container
  gentry,     \* what gindices held when the last call was entered
  gpc         \* "idle" | "returned" | "crashed"

vars == <<data, out_file, actors, pc, cleaned, it, i, result, disk, log,
          console, kdTie, gsrc, gtgt, gindices, gentry, gpc>>

saveVars == <<data, out_file, actors, pc, cleaned, it, i, result, disk, log,
              console>>
callVars == <<gsrc, gtgt, gindices, gentry, gpc>>

(***************************************************************************)
(* Bounds of the model.                                                    *)
(***************************************************************************)
MaxSrcLen == 2      \* displayed points of a stand-alone call
MaxTgtLen == 2      \* reference points of a stand-alone call
MaxEntry == 2       \* indices the caller's container holds before a call
MaxActors == 3      \* entries of the actor map

(***************************************************************************)
(* Generic helpers.                                                        *)
(***************************************************************************)
SeqsUpTo(S, n) == UNION {[1..k -> S] : k \in 0..n}

Range(s) == {s[k] : k \in 1..Len(s)}

Min2(a, b) == IF a <= b THEN a ELSE b

RECURSIVE Pow2(_)
Pow2(n) == IF n = 0 THEN 1 ELSE 2 * Pow2(n - 1)

(***************************************************************************)
(* static_cast<float> (double), lines 67-69: round to nearest, ties to     *)
(* even, at FloatMantissaBits significant bits.                            *)
(***************************************************************************)
FloatMantissaBits == 24

RECURSIVE FloatUlp(_, _)
FloatUlp(v, u) ==
  IF v \div u < Pow2(FloatMantissaBits) THEN u ELSE FloatUlp(v, 2 * u)

RoundMagnitude(v) ==
  LET u == FloatUlp(v, 1)
      q == v \div u
      r == v % u
      up == (2 * r > u) \/ (2 * r = u /\ q % 2 = 1)
  IN  (IF up THEN q + 1 ELSE q) * u

ToFloat(v) == IF v >= 0 THEN RoundMagnitude(v) ELSE 0 - RoundMagnitude(0 - v)

(***************************************************************************)
(* Lines 59-70: copy the vtk points into a PointCloud<PointXYZ>.           *)
(***************************************************************************)
NarrowPoint(p) == <<ToFloat(p[1]), ToFloat(p[2]), ToFloat(p[3])>>

ExtractCloud(src) == [k \in 1..Len(src) |-> NarrowPoint(src[k])]

(***************************************************************************)
(* The kd-tree (pcl::KdTreeFLANN, built at lines 73-74, queried at line    *)
(* 81): exact single nearest neighbour by squared Euclidean distance.      *)
(* Among equidistant reference points the library returns one, always the  *)
(* same for the same input: kdTie fixes which ("lo" = lowest index,        *)
(* "hi" = highest index).  Indices are 0-based as in the code.             *)
(***************************************************************************)
Sq(x) == x * x

DistSq(a, b) == Sq(a[1] - b[1]) + Sq(a[2] - b[2]) + Sq(a[3] - b[3])

NearestSet(point, tgt) ==
  {k \in 0..(Len(tgt) - 1) :
     \A m \in 0..(Len(tgt) - 1) :
        DistSq(point, tgt[k + 1]) <= DistSq(point, tgt[m + 1])}

nearestKSearch(point, tgt, tie) ==
  LET best == NearestSet(point, tgt)
  IN  IF tie = "lo"
        THEN CHOOSE k \in best : \A m \in best : k <= m
        ELSE CHOOSE k \in best : \A m \in best : k >= m

(***************************************************************************)
(* Lines 79-83: one query per point of the cloud, each answer appended to  *)
(* the caller's indices.                                                   *)
(***************************************************************************)
\* CollectMatches, had the loop stopped one point early
CollectMatchesDropLast(cloud, tgt, indices, tie) ==
  indices \o [k \in 1..(Len(cloud) - 1) |-> nearestKSearch(cloud[k], tgt, tie)]

CollectMatches(cloud, tgt, indices, tie) ==
  indices \o [k \in 1..Len(cloud) |-> nearestKSearch(cloud[k], tgt, tie)]

(***************************************************************************)
(* Line 85: std::sort (indices.begin (), indices.end ()).                  *)
(***************************************************************************)
RECURSIVE InsertSorted(_, _)
InsertSorted(s, x) ==
  IF s = <<>> THEN <<x>>
  ELSE IF x <= Head(s) THEN <<x>> \o s
  ELSE <<Head(s)>> \o InsertSorted(Tail(s), x)

RECURSIVE SortIndices(_)
SortIndices(s) ==
  IF s = <<>> THEN <<>>
  ELSE InsertSorted(SortIndices(Tail(s)), Head(s))

(***************************************************************************)
(* Line 86: indices.erase (std::unique (...), indices.end ()): drop every  *)
(* element equal to the one before it.                                     *)
(***************************************************************************)
RECURSIVE UniqueAdjacent(_)
UniqueAdjacent(s) ==
  IF Len(s) <= 1 THEN s
  ELSE IF s[1] = s[2] THEN UniqueAdjacent(Tail(s))
  ELSE <<s[1]>> \o UniqueAdjacent(Tail(s))

\* lines 85-86 without the erase
SortOnly(s) == SortIndices(s)

\* lines 85-86 without the sort
UniqueOnly(s) == UniqueAdjacent(s)

\* lines 85-86

SortAndEraseDuplicates(s) == UniqueAdjacent(SortIndices(s))

(***************************************************************************)
(* What nn_indices[0] can yield after a query on an empty tree: the query  *)
(* finds no neighbour and leaves nn_indices without a valid element, so    *)
(* the read at line 82 is undefined.  The build either faults or reads a   *)
(* stale cell.                                                             *)
(***************************************************************************)
StaleIndices == {0, 1}

(***************************************************************************)
(* getCorrespondingPointCloud, lines 53-87: the set of outcomes            *)
(* [crashed, indices] of one call.  One outcome unless the reference cloud *)
(* is empty and there is a point to query.                                 *)
(***************************************************************************)
getCorrespondingPointCloud(src, tgt, indices, tie) ==
  LET cloud == ExtractCloud(src)
  IN  IF tgt # <<>> \/ cloud = <<>>
        THEN {[crashed |-> FALSE,
               indices |-> SortAndEraseDuplicates(
                              CollectMatches(cloud, tgt, indices, tie))]}
        ELSE {[crashed |-> TRUE, indices |-> indices]}
             \cup {[crashed |-> FALSE,
                    indices |-> SortAndEraseDuplicates(indices \o g)] :
                      g \in [1..Len(cloud) -> StaleIndices]}

(***************************************************************************)
(* std::string as a sequence of characters; positions are 0-based.         *)
(***************************************************************************)
npos == -1

PcdMarker == <<".", "p", "c", "d">>

Occurs(s, pat, pos) ==
  /\ pos + Len(pat) <= Len(s)
  /\ SubSeq(s, pos + 1, pos + Len(pat)) = pat

\* s.rfind (pat): the last occurrence
rfind(s, pat) ==
  LET hits == {pos \in 0..Len(s) : Occurs(s, pat, pos)}
  IN  IF hits = {} THEN npos
      ELSE CHOOSE pos \in hits : \A q \in hits : pos >= q

\* s.find (pat): the first occurrence, or npos
find(s, pat) ==
  LET hits == {pos \in 0..Len(s) : Occurs(s, pat, pos)}
  IN  IF hits = {} THEN npos
      ELSE CHOOSE pos \in hits : \A q \in hits : pos <= q

\* s.substr (pos, n)
substr(s, pos, n) == SubSeq(s, pos + 1, Min2(pos + n, Len(s)))

Digits == <<"0", "1", "2", "3", "4", "5", "6", "7", "8", "9">>

\* std::to_string (int) of a non-negative int
RECURSIVE to_string(_)
to_string(n) ==
  IF n < 10 THEN <<Digits[n + 1]>>
  ELSE to_string(n \div 10) \o <<Digits[(n % 10) + 1]>>

(***************************************************************************)
(* Lines 116-122 of savePointData: is the actor a .pcd source, and which   *)
(* file does its name stand for.                                           *)
(***************************************************************************)
IsSource(name) == find(name, PcdMarker) # npos

\* LoadPath, had the name been cut at the last ".pcd"
LoadPathLastMarker(name) == substr(name, 0, rfind(name, PcdMarker)) \o PcdMarker

LoadPath(name) == substr(name, 0, find(name, PcdMarker)) \o PcdMarker

(***************************************************************************)
(* Line 143: out_file + std::to_string (i++) + ".pcd" (the name uses the   *)
(* value i had before the increment).                                      *)
(***************************************************************************)
\* OutFilename, had the counter started at 0
OutFilenameFromZero(prefix, n) == prefix \o to_string(n - 1) \o PcdMarker

OutFilename(prefix, n) == prefix \o to_string(n) \o PcdMarker

(***************************************************************************)
(* Lines 93-101: vtkCleanPolyData with tolerance 0 and point merging on:   *)
(* of coincident points the first is kept.                                 *)
(***************************************************************************)
RECURSIVE CleanPoints(_)
CleanPoints(s) ==
  IF s = <<>> THEN <<>>
  ELSE LET front == CleanPoints(SubSeq(s, 1, Len(s) - 1))
           last == s[Len(s)]
       IN  IF last \in Range(front) THEN front ELSE Append(front, last)

(***************************************************************************)
(* Line 142: pcl::copyPointCloud (cloud, indices, cloud_out).  An index    *)
(* beyond the cloud (only a stale index can be) copies whatever lies       *)
(* there.                                                                  *)
(***************************************************************************)
GarbagePoint == <<"?", "?", "?">>

copyPointCloud(cloud, indices) ==
  [k \in 1..Len(indices) |->
     IF indices[k] < Len(cloud) THEN cloud[indices[k] + 1] ELSE GarbagePoint]

(***************************************************************************)
(* The inputs of savePointData.                                            *)
(***************************************************************************)
P0 == <<0, 0, 0>>
P1 == <<1, 0, 0>>
P2 == <<4, 0, 0>>

\* displayed geometries, one of them with a coincident pair
DisplayedGeoms == {<<>>, <<P0>>, <<P0, P0>>, <<P2, P1>>}

\* what a .pcd file on disk may hold
FileClouds == {<<>>, <<P0>>, <<P0, P2>>}

NameX == <<"x", ".", "p", "c", "d">>
NameX1 == <<"x", ".", "p", "c", "d", "-", "1">>
NameY == <<"y", ".", "p", "c", "d", "-", "2", ".", "p", "c", "d">>
NameCloud == <<"c", "l", "o", "u", "d">>
NamePc == <<"z", ".", "p", "c">>

ActorNames == {NameX, NameX1, NameY, NameCloud, NamePc}

\* the keys of a map are distinct
ActorMaps ==
  {s \in SeqsUpTo(ActorNames, MaxActors) :
     \A a, b \in 1..Len(s) : a # b => s[a] # s[b]}

OutPrefixes == {<<"o">>}

EmptyDisk == [f \in {} |-> <<>>]

LogEntry(op, entry, name, ok, size) ==
  [op |-> op, entry |-> entry, name |-> name, ok |-> ok, size |-> size]

(***************************************************************************)
(* savePointData, one action per step of the function.                     *)
(***************************************************************************)
\* lines 93-111: clean the data, report the pruned points, int i = 1
Clean ==
  /\ pc = "start"
  /\ cleaned' = CleanPoints(data)
  /\ console' = IF Len(CleanPoints(data)) # Len(data)
                  THEN <<Len(data) - Len(CleanPoints(data))>>
                  ELSE <<>>
  /\ i' = 1
  /\ it' = 1
  /\ pc' = "loop"
  /\ UNCHANGED <<data, out_file, actors, result, disk, log, kdTie>>
  /\ UNCHANGED callVars

InLoop == pc = "loop" /\ it <= Len(actors)

\* SkipEntry, had the skipped actor consumed a sequence number
SkipEntryCounts ==
  /\ InLoop
  /\ ~IsSource(actors[it])
  /\ it' = it + 1
  /\ i' = i + 1
  /\ UNCHANGED <<data, out_file, actors, pc, cleaned, result, disk, log,
                 console, kdTie>>
  /\ UNCHANGED callVars

\* lines 116-119: no ".pcd" in the name: continue
SkipEntry ==
  /\ InLoop
  /\ ~IsSource(actors[it])
  /\ it' = it + 1
  /\ UNCHANGED <<data, out_file, actors, pc, cleaned, i, result, disk, log,
                 console, kdTie>>
  /\ UNCHANGED callVars

\* LoadFail, had the failed load gone on to the next actor (continue)
LoadFailContinue ==
  /\ InLoop
  /\ IsSource(actors[it])
  /\ log' = Append(log, LogEntry("load", it, LoadPath(actors[it]), FALSE, 0))
  /\ it' = it + 1
  /\ UNCHANGED <<data, out_file, actors, pc, cleaned, i, result, disk,
                 console, kdTie>>
  /\ UNCHANGED callVars

\* lines 122-131: loadPCDFile returns -1: return (false)
LoadFail ==
  /\ InLoop
  /\ IsSource(actors[it])
  /\ log' = Append(log, LogEntry("load", it, LoadPath(actors[it]), FALSE, 0))
  /\ result' = FALSE
  /\ pc' = "done"
  /\ UNCHANGED <<data, out_file, actors, cleaned, it, i, disk, console, kdTie>>
  /\ UNCHANGED callVars

\* the log of an entry whose file loaded: the load, then the kd-tree built
\* over the loaded cloud inside getCorrespondingPointCloud (line 138)
LoadedLog(cloud) ==
  log \o <<LogEntry("load", it, LoadPath(actors[it]), TRUE, Len(cloud)),
           LogEntry("kdtree", it, LoadPath(actors[it]), TRUE, Len(cloud))>>

\* lines 122-138, the call at line 138 faulting (empty reference cloud)
MatchFault ==
  /\ InLoop
  /\ IsSource(actors[it])
  /\ \E cloud \in FileClouds :
       /\ \E o \in getCorrespondingPointCloud(cleaned, cloud, <<>>, kdTie) :
            o.crashed
       /\ log' = LoadedLog(cloud)
  /\ pc' = "crashed"
  /\ UNCHANGED <<data, out_file, actors, cleaned, it, i, result, disk,
                 console, kdTie>>
  /\ UNCHANGED callVars

\* SaveFail, had the value of savePCDFile not been looked at
SaveFailIgnored ==
  /\ InLoop
  /\ IsSource(actors[it])
  /\ \E cloud \in FileClouds :
       \E o \in getCorrespondingPointCloud(cleaned, cloud, <<>>, kdTie) :
         /\ ~o.crashed
         /\ log' = Append(LoadedLog(cloud),
                          LogEntry("save", it, OutFilename(out_file, i), FALSE,
                                   Len(o.indices)))
  /\ i' = i + 1
  /\ it' = it + 1
  /\ UNCHANGED <<data, out_file, actors, pc, cleaned, result, disk, console,
                 kdTie>>
  /\ UNCHANGED callVars

\* lines 122-150: loaded and matched, savePCDFile returns -1: return (false)
SaveFail ==
  /\ InLoop
  /\ IsSource(actors[it])
  /\ \E cloud \in FileClouds :
       \E o \in getCorrespondingPointCloud(cleaned, cloud, <<>>, kdTie) :
         /\ ~o.crashed
         /\ log' = Append(LoadedLog(cloud),
                          LogEntry("save", it, OutFilename(out_file, i), FALSE,
                                   Len(o.indices)))
  /\ i' = i + 1
  /\ result' = FALSE
  /\ pc' = "done"
  /\ UNCHANGED <<data, out_file, actors, cleaned, it, disk, console, kdTie>>
  /\ UNCHANGED callVars

\* lines 122-152: loaded, matched and saved: on to the next actor
SaveOk ==
  /\ InLoop
  /\ IsSource(actors[it])
  /\ \E cloud \in FileClouds :
       \E o \in getCorrespondingPointCloud(cleaned, cloud, <<>>, kdTie) :
         /\ ~o.crashed
         /\ log' = Append(LoadedLog(cloud),
                          LogEntry("save", it, OutFilename(out_file, i), TRUE,
                                   Len(o.indices)))
         /\ disk' = [f \in DOMAIN disk \cup {OutFilename(out_file, i)} |->
                       IF f = OutFilename(out_file, i)
                         THEN [entry |-> it,
                               indices |-> o.indices,
                               points |-> copyPointCloud(cloud, o.indices)]
                         ELSE disk[f]]
  /\ i' = i + 1
  /\ it' = it + 1
  /\ UNCHANGED <<data, out_file, actors, pc, cleaned, result, console, kdTie>>
  /\ UNCHANGED callVars

\* line 154: the loop is over: return (true)
ReturnTrue ==
  /\ pc = "loop"
  /\ it > Len(actors)
  /\ result' = TRUE
  /\ pc' = "done"
  /\ UNCHANGED <<data, out_file, actors, cleaned, it, i, disk, log, console,
                 kdTie>>
  /\ UNCHANGED callVars

CallIdle ==
  /\ gsrc = <<>>
  /\ gtgt = <<>>
  /\ gindices = <<>>
  /\ gentry = <<>>
  /\ gpc = "idle"

Init ==
  /\ data \in DisplayedGeoms
  /\ out_file \in OutPrefixes
  /\ actors \in ActorMaps
  /\ kdTie \in {"lo", "hi"}
  /\ pc = "start"
  /\ cleaned = <<>>
  /\ it = 0
  /\ i = 0
  /\ result = "none"
  /\ disk = EmptyDisk
  /\ log = <<>>
  /\ console = <<>>
  /\ CallIdle

Next ==
  \/ Clean
  \/ SkipEntry
  \/ LoadFail
  \/ MatchFault
  \/ SaveFail
  \/ SaveOk
  \/ ReturnTrue

Spec == Init /\ [][Next]_vars

(***************************************************************************)
(* A caller of getCorrespondingPointCloud on its own (the function is      *)
(* exported): it owns the indices container, may put indices into it or    *)
(* empty it, and calls the function on it, any number of times.            *)
(***************************************************************************)
SrcPoints == {<<0, 0, 0>>, <<1, 0, 0>>, <<3, 0, 0>>}

TgtPoints == {<<0, 0, 0>>, <<2, 0, 0>>, <<0, 2, 0>>}

\* reference (0,0,0) (1,0,0) (0,1,0) (5,5,5), displayed (0.01,0,0)
\* (5,5,5.01), in units of 0.01
ExampleTgt == <<<<0, 0, 0>>, <<100, 0, 0>>, <<0, 100, 0>>, <<500, 500, 500>>>>
ExampleSrc == <<<<1, 0, 0>>, <<500, 500, 501>>>>

\* a displayed coordinate that is no float: 2^24 + 3 lies between the
\* floats 2^24 + 2 and 2^24 + 4
WideSrc == <<<<16777219, 0, 0>>>>
WideTgt == <<<<16777218, 0, 0>>, <<16777220, 1, 0>>>>

CallInputs ==
  (SeqsUpTo(SrcPoints, MaxSrcLen) \X SeqsUpTo(TgtPoints, MaxTgtLen))
    \cup {<<ExampleSrc, ExampleTgt>>, <<WideSrc, WideTgt>>}

EntryValues == {0, 2}

SaveIdle ==
  /\ data = <<>>
  /\ out_file = <<>>
  /\ actors = <<>>
  /\ pc = "idle"
  /\ cleaned = <<>>
  /\ it = 0
  /\ i = 0
  /\ result = "none"
  /\ disk = EmptyDisk
  /\ log = <<>>
  /\ console = <<>>

\* the caller puts an index into its container
CallerPush ==
  /\ gpc # "crashed"
  /\ Len(gindices) < MaxEntry
  /\ \E v \in EntryValues : gindices' = Append(gindices, v)
  /\ gentry' = <<>>
  /\ gpc' = "idle"
  /\ UNCHANGED <<gsrc, gtgt, kdTie>>
  /\ UNCHANGED saveVars

\* the caller empties its container
CallerClear ==
  /\ gpc # "crashed"
  /\ gindices # <<>>
  /\ gindices' = <<>>
  /\ gentry' = <<>>
  /\ gpc' = "idle"
  /\ UNCHANGED <<gsrc, gtgt, kdTie>>
  /\ UNCHANGED saveVars

\* getCorrespondingPointCloud (src, tgt, indices) returns
CallReturn ==
  /\ gpc # "crashed"
  /\ \E o \in getCorrespondingPointCloud(gsrc, gtgt, gindices, kdTie) :
       /\ ~o.crashed
       /\ gindices' = o.indices
  /\ gentry' = gindices
  /\ gpc' = "returned"
  /\ UNCHANGED <<gsrc, gtgt, kdTie>>
  /\ UNCHANGED saveVars

\* getCorrespondingPointCloud (src, tgt, indices) faults
CallFault ==
  /\ gpc # "crashed"
  /\ \E o \in getCorrespondingPointCloud(gsrc, gtgt, gindices, kdTie) :
       o.crashed
  /\ gentry' = gindices
  /\ gpc' = "crashed"
  /\ UNCHANGED <<gsrc, gtgt, gindices, kdTie>>
  /\ UNCHANGED saveVars

InitCall ==
  /\ \E input \in CallInputs :
       /\ gsrc = input[1]
       /\ gtgt = input[2]
  /\ kdTie \in {"lo", "hi"}
  /\ gindices = <<>>
  /\ gentry = <<>>
  /\ gpc = "idle"
  /\ SaveIdle

NextCall ==
  \/ CallerPush
  \/ CallerClear
  \/ CallReturn
  \/ CallFault

SpecCall == InitCall /\ [][NextCall]_vars

(***************************************************************************)
(* Properties of getCorrespondingPointCloud (under SpecCall).              *)
(***************************************************************************)
Returned == gpc = "returned" /\ gtgt # <<>>

\* the squared distance from p to the nearest point of tgt
IsMinimalAt(p, tgt, k) ==
  /\ k \in 0..(Len(tgt) - 1)
  /\ \A m \in 1..Len(tgt) : DistSq(p, tgt[k + 1]) <= DistSq(p, tgt[m])

\* C3: for every displayed point sequence and every non-empty reference
\* cloud, the indices left by getCorrespondingPointCloud are strictly
\* ascending: no index is repeated, however many displayed points mapped
\* to it.
C3_StrictlyAscending ==
  Returned =>
    \A a, b \in 1..Len(gindices) : a < b => gindices[a] < gindices[b]

\* C3 witness: two displayed points with the same nearest reference point,
\* whose index is in the result once.
C3_Witness ==
  /\ Returned
  /\ gentry = <<>>
  /\ Len(gsrc) = 2
  /\ Len(gtgt) = 2
  /\ gsrc[1] # gsrc[2]
  /\ gindices = <<1>>

\* C4 as stated: the result holds, for every displayed point p as the
\* viewer gives it, the index of a reference point at minimal distance
\* from p.
C4_NearestOfDisplayed ==
  Returned =>
    \A k \in 1..Len(gsrc) :
      \E x \in Range(gindices) : IsMinimalAt(gsrc[k], gtgt, x)

\* C4 amended: the result holds, for every displayed point p, the index of
\* a reference point at minimal distance from p narrowed to single
\* precision; the reference points (0,0,0) (1,0,0) (0,1,0) (5,5,5) with the
\* displayed points (0.01,0,0) (5,5,5.01) give exactly {0, 3}.
C4_NearestOfNarrowed ==
  /\ Returned =>
       \A k \in 1..Len(gsrc) :
         \E x \in Range(gindices) : IsMinimalAt(NarrowPoint(gsrc[k]), gtgt, x)
  /\ (Returned /\ gsrc = ExampleSrc /\ gtgt = ExampleTgt /\ gentry = <<>>)
       => gindices = <<0, 3>>

\* C4 witness: the example has been resolved.
C4_Witness ==
  /\ Returned
  /\ gsrc = ExampleSrc
  /\ gtgt = ExampleTgt
  /\ gentry = <<>>
  /\ gindices = <<0, 3>>

\* C5 as stated (for a container empty on entry, as savePointData passes
\* it): the size of the result is between 1 and min(displayed-point count,
\* reference-cloud size).
C5_SizeAtLeastOne ==
  (Returned /\ gentry = <<>>) =>
    /\ 1 <= Len(gindices)
    /\ Len(gindices) <= Min2(Len(gsrc), Len(gtgt))

\* C5 amended: the result has at least min(1, displayed-point count)
\* indices (none when there is no displayed point), and the call adds at
\* most min(displayed-point count, reference-cloud size) indices to those
\* the container held on entry.
C5_SizeBounds ==
  Returned =>
    /\ Min2(1, Len(gsrc)) <= Len(gindices)
    /\ Len(gindices) - Cardinality(Range(gentry))
         <= Min2(Len(gsrc), Len(gtgt))
    /\ gentry = <<>> => Len(gindices) <= Min2(Len(gsrc), Len(gtgt))

\* C5 witness: two displayed points, two reference points, both matched.
C5_Witness ==
  /\ Returned
  /\ gentry = <<>>
  /\ Len(gsrc) = 2
  /\ Len(gtgt) = 2
  /\ Len(gindices) = 2

\* C8: the indices left by getCorrespondingPointCloud are a function of
\* the displayed points and the reference cloud alone: they are what a
\* call with the same two inputs leaves in an empty container, whatever
\* the container held on entry.
C8_PureFunction ==
  Returned =>
    \A o \in getCorrespondingPointCloud(gsrc, gtgt, <<>>, kdTie) :
      gindices = o.indices

(***************************************************************************)
(* Properties of savePointData (under Spec).                               *)
(***************************************************************************)
\* the name holds ".pcd" somewhere
HasPcd(name) ==
  \E a \in 1..Len(name) :
    a + 3 <= Len(name) /\ SubSeq(name, a, a + 3) = <<".", "p", "c", "d">>

\* the log entries of one kind
LogOf(op) == {k \in 1..Len(log) : log[k].op = op}

\* the actors whose save succeeded
SavedEntries == {log[k].entry : k \in {m \in LogOf("save") : log[m].ok}}

\* <prefix><k>.pcd, for k below 10
NumberedFile(k) == out_file \o <<Digits[k + 1]>> \o <<".", "p", "c", "d">>

\* the actors before e, e included, that are .pcd sources
SourcesUpTo(e) == {a \in 1..e : HasPcd(actors[a])}

\* C1: once the load or the save of a recognized entry fails, nothing is
\* loaded, matched or saved after it and the call returns false; with three
\* recognized entries of which the second fails to load, exactly one file
\* (that of the first entry) has been written and the third entry is never
\* loaded.
C1_FailFast ==
  /\ \A k \in 1..Len(log) :
       ~log[k].ok => /\ k = Len(log)
                     /\ pc = "done"
                     /\ result = FALSE
  /\ ( /\ Len(actors) = 3
       /\ \A e \in 1..3 : HasPcd(actors[e])
       /\ \E k \in LogOf("load") : log[k].entry = 2 /\ ~log[k].ok )
     => /\ DOMAIN disk = {NumberedFile(1)}
        /\ disk[NumberedFile(1)].entry = 1
        /\ \A k \in 1..Len(log) : log[k].entry # 3

\* C1 witness: three recognized entries, the first saved, the second failed
\* to load.
C1_Witness ==
  /\ Len(actors) = 3
  /\ \A e \in 1..3 : HasPcd(actors[e])
  /\ \E k \in LogOf("load") : log[k].entry = 2 /\ ~log[k].ok
  /\ Cardinality(DOMAIN disk) = 1
  /\ pc = "done"
  /\ result = FALSE

\* every recognized entry was loaded, matched and saved without error
AllProcessed ==
  \A e \in 1..Len(actors) :
    HasPcd(actors[e]) =>
      \A op \in {"load", "kdtree", "save"} :
        \E k \in LogOf(op) : log[k].entry = e /\ log[k].ok

\* C2: savePointData returns true if and only if every recognized entry was
\* loaded, matched and saved without error (so also for a collection that
\* is empty or has no recognized entry); a failure makes the result false
\* and leaves the files written before it in place.
C2_ResultIffAllProcessed ==
  pc = "done" =>
    /\ result \in BOOLEAN
    /\ result = TRUE <=> AllProcessed
    /\ (\E k \in 1..Len(log) : ~log[k].ok) => result = FALSE
    /\ \A k \in LogOf("save") :
         log[k].ok => /\ log[k].name \in DOMAIN disk
                      /\ disk[log[k].name].entry = log[k].entry

\* C2 witness: a run that failed after it had written a file.
C2_Witness ==
  /\ pc = "done"
  /\ result = FALSE
  /\ \E k \in LogOf("save") : ~log[k].ok
  /\ Cardinality(DOMAIN disk) = 1

\* C6: the files written are exactly <prefix>1.pcd .. <prefix>n.pcd, n the
\* number of recognized entries whose save succeeded, and the k-th such
\* entry in iteration order is the one written to <prefix>k.pcd; while the
\* loop runs the sequence number is n + 1.
C6_Numbering ==
  LET n == Cardinality(SavedEntries)
  IN  /\ DOMAIN disk = {NumberedFile(k) : k \in 1..n}
      /\ \A k \in 1..n :
           /\ disk[NumberedFile(k)].entry \in SavedEntries
           /\ Cardinality({e \in SavedEntries :
                             e <= disk[NumberedFile(k)].entry}) = k
      /\ pc = "loop" => i = n + 1

\* C6 witness: a finished run that wrote two files, the second for an entry
\* that follows a skipped one.
C6_Witness ==
  /\ pc = "done"
  /\ Cardinality(DOMAIN disk) = 2
  /\ \E e \in 1..Len(actors) :
       /\ ~HasPcd(actors[e])
       /\ e < disk[NumberedFile(2)].entry

\* the step at hand is the processing of an entry without ".pcd"
AtSkippedEntry ==
  /\ pc = "loop"
  /\ it <= Len(actors)
  /\ ~HasPcd(actors[it])

\* C7: processing an entry whose name does not hold ".pcd" performs no
\* load, no correspondence query and no save, leaves the sequence number
\* and the result as they are, and the files and numbers of the other
\* entries are those the collection without it would give: only recognized
\* entries are loaded, matched or saved, and the file of a recognized entry
\* is numbered by its rank among the recognized entries saved before it.
C7_SkipHasNoEffect ==
  /\ [][AtSkippedEntry =>
          /\ it' = it + 1
          /\ UNCHANGED <<i, result, pc, disk, log, console, cleaned>>]_vars
  /\ [](\A k \in 1..Len(log) :
          /\ HasPcd(actors[log[k].entry])
          /\ (log[k].op = "save" /\ log[k].ok) =>
               log[k].name =
                 NumberedFile(Cardinality(SourcesUpTo(log[k].entry))))

\* C7 witness: an entry was skipped and a later entry saved as file 1.
C7_Witness ==
  \E e \in 1..Len(actors) :
    /\ ~HasPcd(actors[e])
    /\ NumberedFile(1) \in DOMAIN disk
    /\ disk[NumberedFile(1)].entry > e

\* C9: no kd-tree is built over an empty reference cloud: savePointData
\* does not hand a loaded cloud of zero points to
\* getCorrespondingPointCloud.
C9_NoIndexOverEmptyCloud ==
  \A k \in LogOf("kdtree") : log[k].size > 0

\* C10: the path loaded for a display name holding ".pcd" is the part of
\* the name before the first ".pcd", followed by ".pcd": what follows the
\* first occurrence is dropped, "x.pcd" and "x.pcd-1" both give "x.pcd",
\* and recovering the path of a path gives the path.
C10_LoadPathUpToFirstMarker ==
  \A k \in LogOf("load") :
    LET name == actors[log[k].entry]
        path == log[k].name
        stem == Len(path) - 4
    IN  /\ stem >= 0
        /\ stem + 4 <= Len(name)
        /\ path = SubSeq(name, 1, stem + 4)
        /\ SubSeq(path, stem + 1, stem + 4) = <<".", "p", "c", "d">>
        /\ ~HasPcd(SubSeq(path, 1, stem + 3))
        /\ LoadPath(path) = path
        /\ name \in {NameX, NameX1} => path = <<"x", ".", "p", "c", "d">>

\* C10 witness: a name with a second ".pcd" after its suffix was loaded
\* from the path that ends at the first.
C10_Witness ==
  \E k \in LogOf("load") :
    /\ actors[log[k].entry] = NameY
    /\ log[k].name = <<"y", ".", "p", "c", "d">>

====
